---- MODULE Spec2Model ----
(***************************************************************************)
(* A model of middleware.py: the relay between the WhatsApp Cloud API      *)
(* webhook and the Botpress conversation endpoint, with the background     *)
(* voice pipeline (download, transcode + recognise, forward).              *)
(*                                                                         *)
(* Python values are modelled as follows.                                  *)
(*   - a str or bytes value is a sequence of tokens; the token "Sorry"     *)
(*     stands for the five characters every apology of the program starts  *)
(*     with, so that str.startswith("Sorry") is a test of the first token; *)
(*   - an optional value (one that may be None) is a sequence of length    *)
(*     at most one: None is <<>> and a present value x is <<x>>;           *)
(*   - a dict is a function whose DOMAIN is its set of keys.               *)
(***************************************************************************)
EXTENDS Integers, Sequences, FiniteSets, TLC

VARIABLES
    payload,      \* the body of the POST /webhook request the platform delivers
    deliveries,   \* how many times the platform delivers it, and has delivered it so far
    request,      \* the POST /webhook handler in progress: what it has left to do
    responses,    \* the HTTP responses POST /webhook has returned, in order
    tasks,        \* the executor: every task submitted, in submission order
    log,          \* per dispatched message, the external calls made for it, in order
    verify,       \* a GET /webhook call: its inputs and its response
    callback,     \* a POST /botpress-webhook call: its inputs, calls and response
    conv,         \* a convert_voice_to_text call: its environment and its outcome
    recognizer,   \* the module's one sr.Recognizer (line 27): what its threshold holds
    client        \* a call of an outbound client: its exchanges and its result

vars == <<payload, deliveries, request, responses, tasks, log, verify, callback, conv,
          recognizer, client>>

----------------------------------------------------------------------------
(* Bounds of the model *)

MaxMsgs == 2          \* messages carried by one webhook payload
MaxEntries == 1       \* entries of one webhook payload

----------------------------------------------------------------------------
(* Python helpers *)

None == <<>>
Some(x) == <<x>>

Has(d, k) == k \in DOMAIN d

\* bool(x) of a str / bytes value
Truthy(s) == Len(s) > 0

\* bool(x) of an optional str / bytes value
TruthyOpt(o) == o # None /\ Truthy(o[1])

\* s.startswith(p)
StartsWith(s, p) == Len(s) >= Len(p) /\ SubSeq(s, 1, Len(p)) = p

\* p in s
Contains(s, p) ==
    \E i \in 0..(Len(s) - Len(p)) : SubSeq(s, i + 1, i + Len(p)) = p

----------------------------------------------------------------------------
(* The texts of the program *)

SORRY == <<"Sorry">>

MSG_ACK == <<"I received your voice message! Processing...">>
MSG_DOWNLOAD_FAILED ==
    SORRY \o <<", I couldn't download your voice message. Please try again.">>
MSG_NOT_UNDERSTOOD == SORRY \o <<", I couldn't understand the audio clearly.">>
MSG_RECOGNITION_DOWN ==
    SORRY \o <<", I'm having trouble with voice recognition right now.">>
MSG_NOT_PROCESSED == SORRY \o <<", I couldn't process the voice message.">>
MSG_EMPTY_TRANSCRIPT == SORRY \o <<", I couldn't understand the voice message.">>

\* the message of line 208 without the transcript
echo_message_without_transcript(transcribed_text) ==
    <<"I heard you.">>
        \o <<"\n\nBut I'm having trouble connecting to my brain right now. Please try again in a moment.">>

\* line 208: the transcript echoed back when the forward failed
echo_message(transcribed_text) ==
    <<"I heard: \"">> \o transcribed_text
        \o <<"\"\n\nBut I'm having trouble connecting to my brain right now. Please try again in a moment.">>

\* what the recognisers can return for an utterance
Transcripts == { <<>>, <<"hello", " there">>, <<"Sorry", " I'm late">> }

----------------------------------------------------------------------------
(* convert_voice_to_text, lines 61-109 *)

\* The environment of one call: the outcome of every operation that can fail.
ConvertEnvs ==
    [ create_ok : BOOLEAN,                 \* line 68 NamedTemporaryFile
      write_ok  : BOOLEAN,                 \* line 69 temp_ogg.write
      decode_ok : BOOLEAN,                 \* line 73 AudioSegment.from_ogg
      export    : {"ok", "failed", "failed_partial"},   \* line 75 audio.export
      open_ok   : BOOLEAN,                 \* line 78 sr.AudioFile
      record_ok : BOOLEAN,                 \* lines 80-81 calibration and record
      google    : {[raises |-> "UnknownValueError"], [raises |-> "RequestError"],
                   [raises |-> "OtherError"]}
                      \cup {[text |-> t] : t \in Transcripts},       \* line 85
      sphinx    : {[raises |-> "Error"]} \cup {[text |-> t] : t \in Transcripts},  \* line 94
      unlink_ok : [{"ogg", "wav"} -> BOOLEAN] ]         \* line 107 os.unlink

\* the recognition with the offline recogniser tried after every exception of
\* the primary one
recognize_fallback_always(env) ==
    IF Has(env.google, "text")
    THEN [ret |-> env.google.text, attempts |-> <<"google">>, source |-> "google"]
    ELSE IF Has(env.sphinx, "text")
    THEN [ret |-> env.sphinx.text, attempts |-> <<"google", "sphinx">>,
          source |-> "sphinx"]
    ELSE [ret |-> MSG_RECOGNITION_DOWN, attempts |-> <<"google", "sphinx">>,
          source |-> "unavailable"]

\* lines 84-97: the recognition attempts and what the with-block returns; source
\* names the branch the returned string comes from
recognize(env) ==
    IF Has(env.google, "text")
    THEN [ret |-> env.google.text, attempts |-> <<"google">>, source |-> "google"]
    ELSE IF env.google.raises = "UnknownValueError"
    THEN [ret |-> MSG_NOT_UNDERSTOOD, attempts |-> <<"google">>, source |-> "no_speech"]
    ELSE IF env.google.raises = "RequestError"
    THEN IF Has(env.sphinx, "text")
         THEN [ret |-> env.sphinx.text, attempts |-> <<"google", "sphinx">>,
               source |-> "sphinx"]
         ELSE [ret |-> MSG_RECOGNITION_DOWN, attempts |-> <<"google", "sphinx">>,
               source |-> "unavailable"]
    ELSE \* any other exception leaves the with-block for the handler of line 99
         [ret |-> MSG_NOT_PROCESSED, attempts |-> <<"google">>, source |-> "error"]

\* lines 102-109: the files the finally block leaves behind
cleanup(paths, files, unlink_ok) ==
    files \ {f \in paths : unlink_ok[f]}

convert_voice_to_text(env) ==
    LET \* line 68: the file exists as soon as NamedTemporaryFile returns
        written == env.create_ok /\ env.write_ok
        \* line 70 runs only after the write of line 69
        temp_ogg_path == IF written THEN Some("ogg") ELSE None
        decoded == written /\ env.decode_ok
        \* line 74 runs only after the decode of line 73
        temp_wav_path == IF decoded THEN Some("wav") ELSE None
        exported == decoded /\ env.export = "ok"
        \* line 80 is reached, and writes the recognizer's threshold
        calibrated == exported /\ env.open_ok
        recorded == calibrated /\ env.record_ok
        created == (IF env.create_ok THEN {"ogg"} ELSE {})
                     \cup (IF decoded /\ env.export # "failed" THEN {"wav"} ELSE {})
        paths == {temp_ogg_path[i] : i \in DOMAIN temp_ogg_path}
                     \cup {temp_wav_path[i] : i \in DOMAIN temp_wav_path}
        rec == recognize(env)
    IN  [ ret      |-> IF recorded THEN rec.ret ELSE MSG_NOT_PROCESSED,
          attempts |-> IF recorded THEN rec.attempts ELSE <<>>,
          source   |-> IF recorded THEN rec.source ELSE "error",
          calibrated |-> calibrated,
          created  |-> created,
          files    |-> cleanup(paths, created, env.unlink_ok) ]

\* line 27: the one Recognizer of the module, which every call of
\* convert_voice_to_text uses. adjust_for_ambient_noise (line 80) blends the
\* level of the audio it is given into energy_threshold; the model keeps, in
\* place of the number, the calls whose audio the number holds.
RecognizerInit == [energy_threshold |-> {}]

\* line 80
adjust_for_ambient_noise(r, source) ==
    [r EXCEPT !.energy_threshold = @ \cup {source}]

ConvertIdle == [pc |-> "idle"]

ConvertReturn ==
    /\ conv.pc = "call"
    /\ conv' = [pc |-> "returned", env |-> conv.env, out |-> convert_voice_to_text(conv.env)]
    /\ UNCHANGED <<payload, deliveries, request, responses, tasks, log, verify, callback, recognizer, client>>

----------------------------------------------------------------------------
(* The outbound clients *)

\* what the HTTP exchange of a client can end in
HttpOutcomes ==
    {[status |-> 200], [status |-> 201], [status |-> 204], [status |-> 400],
     [status |-> 401], [status |-> 500],
     [raises |-> "Timeout"], [raises |-> "ConnectionError"]}

\* how a call ends: with the value it returns, or with the exception it lets out
Returns(v) == [returns |-> v]

\* send_to_botpress answering True to every answer of the message POST
send_to_botpress_any_answer(conv_outcome, outcome) ==
    IF Has(conv_outcome, "raises")
    THEN Returns(FALSE)
    ELSE IF Has(outcome, "raises")
    THEN Returns(FALSE)
    ELSE Returns(TRUE)

\* lines 111-149: how send_to_botpress ends; conv_outcome is the exchange of
\* line 124, outcome the message POST of line 135
send_to_botpress(conv_outcome, outcome) ==
    IF Has(conv_outcome, "raises")
    THEN \* lines 144-149: the POST is never made
         Returns(FALSE)
    ELSE IF Has(outcome, "raises")
    THEN Returns(FALSE)                                   \* lines 144-149
    ELSE Returns(outcome.status \in {200, 201})           \* lines 137-142

\* lines 151-182: how send_whatsapp_message ends
send_whatsapp_message(outcome) ==
    IF Has(outcome, "raises")
    THEN Returns(FALSE)                                   \* lines 180-182
    ELSE Returns(outcome.status = 200)                    \* lines 173-178

\* what the callers of the two clients can get back
BotpressReturns ==
    {send_to_botpress(c, o).returns : c \in HttpOutcomes, o \in HttpOutcomes}
WhatsAppReturns == {send_whatsapp_message(o).returns : o \in HttpOutcomes}

\* one call of a client with the outcome of each of its exchanges
ClientCalls ==
    {[fn |-> "send_to_botpress", conv |-> c, post |-> o] :
        c \in HttpOutcomes, o \in HttpOutcomes}
      \cup {[fn |-> "send_whatsapp_message", post |-> o] : o \in HttpOutcomes}

ClientIdle == [pc |-> "idle"]

ClientReturn ==
    /\ client.pc = "call"
    /\ client' = [pc |-> "returned", call |-> client.call,
                  result |-> IF client.call.fn = "send_to_botpress"
                             THEN send_to_botpress(client.call.conv, client.call.post)
                             ELSE send_whatsapp_message(client.call.post)]
    /\ UNCHANGED <<payload, deliveries, request, responses, tasks, log, verify, callback,
                   conv, recognizer>>

\* lines 30-59: what download_whatsapp_media returns: None, or the content
DownloadResults == {None, Some(<<>>), Some(<<"OggS">>)}

----------------------------------------------------------------------------
(* GET /webhook, lines 218-231 *)

\* The response of the verification request. WHATSAPP_VERIFY_TOKEN is
\* os.getenv(...) of line 20: None when the variable is not set.
webhook_get(mode, token, challenge, WHATSAPP_VERIFY_TOKEN) ==
    IF mode = Some("subscribe") /\ token = WHATSAPP_VERIFY_TOKEN
    THEN IF challenge = None
         THEN \* the view returns None, which Flask answers with a server error
              [status |-> 500, body |-> "Internal Server Error"]
         ELSE [status |-> 200, body |-> challenge[1]]
    ELSE [status |-> 403, body |-> "Verification failed"]

VerifyInputs ==
    [ mode      : {None, Some("subscribe"), Some("unsubscribe")},
      token     : {None, Some(""), Some("s3cret"), Some("guess")},
      challenge : {None, Some("1158201444"), Some("77")},
      secret    : {None, Some(""), Some("s3cret")} ]

VerifyIdle == [pc |-> "idle"]

WebhookGet ==
    /\ verify.pc = "call"
    /\ verify' = [pc |-> "returned", args |-> verify.args,
                  response |-> webhook_get(verify.args.mode, verify.args.token,
                                           verify.args.challenge, verify.args.secret)]
    /\ UNCHANGED <<payload, deliveries, request, responses, tasks, log, callback, conv, recognizer, client>>

----------------------------------------------------------------------------
(* POST /botpress-webhook, lines 295-321 *)

U1 == <<"15551234567">>
U2 == <<"15557654321">>

EmptyDict == <<>>

\* d.get(k)
Get(d, k) == IF Has(d, k) THEN Some(d[k]) ELSE None

JsonNull == [t |-> "null"]
JsonList == [t |-> "list"]
JsonDict(d) == [t |-> "dict", d |-> d]

CallbackPayloads ==
    {JsonNull, JsonDict(EmptyDict)}
        \cup {JsonDict([text |-> x]) : x \in {<<>>, <<"Hi!">>, <<"Bye">>}}

\* the dicts of the body: each of the three keys present or not
CallbackDicts ==
    LET Ids == {None, Some(<<>>), Some(U1), Some(U2)}
        Types == {None, Some("text"), Some("image")}
        Payloads == {None} \cup {Some(p) : p \in CallbackPayloads}
        Part(k, o) == IF o = None THEN EmptyDict ELSE k :> o[1]
    IN  {Part("conversationId", i) @@ Part("type", t) @@ Part("payload", p) :
            i \in Ids, t \in Types, p \in Payloads}

CallbackBodies ==
    {[kind |-> "nojson"], [kind |-> "invalid"]}
        \cup {[kind |-> "json", data |-> v] :
                v \in {JsonNull, JsonList} \cup {JsonDict(d) : d \in CallbackDicts}}

CALLBACK_OK == [status |-> 200, body |-> "success"]
CALLBACK_ERROR == [status |-> 500, body |-> "error"]

\* the test of line 306 without the message type
callback_accepts_any_type(message_type, conversation_id) ==
    TruthyOpt(conversation_id)

\* line 306
callback_accepts(message_type, conversation_id) ==
    message_type = Some("text") /\ TruthyOpt(conversation_id)

\* The Notifier calls and the response of the handler; send_ok is what
\* send_whatsapp_message returns when it is called.
botpress_webhook(body, send_ok) ==
    IF body.kind # "json"
    THEN [calls |-> <<>>, response |-> CALLBACK_ERROR]      \* line 299 raises
    ELSE IF body.data.t # "dict"
    THEN [calls |-> <<>>, response |-> CALLBACK_ERROR]      \* line 303 raises
    ELSE LET data == body.data.d
             conversation_id == Get(data, "conversationId")
             message_type == Get(data, "type")
         IN  IF callback_accepts(message_type, conversation_id)
             THEN LET p == IF Has(data, "payload") THEN data.payload
                                                   ELSE JsonDict(EmptyDict)
                  IN  IF p.t # "dict"
                      THEN [calls |-> <<>>, response |-> CALLBACK_ERROR]  \* line 307 raises
                      ELSE LET bot_message == IF Has(p.d, "text") THEN p.d.text ELSE <<>>
                           IN  IF Truthy(bot_message)                     \* line 309
                               THEN [calls |-> <<[op |-> "notify", to |-> conversation_id[1],
                                                  body |-> bot_message, ok |-> send_ok]>>,
                                     response |-> CALLBACK_OK]
                               ELSE [calls |-> <<>>, response |-> CALLBACK_OK]
             ELSE [calls |-> <<>>, response |-> CALLBACK_OK]

CallbackIdle == [pc |-> "idle"]

BotpressWebhook ==
    /\ callback.pc = "call"
    /\ \E send_ok \in WhatsAppReturns :
         callback' = [pc |-> "returned", body |-> callback.body,
                      out |-> botpress_webhook(callback.body, send_ok)]
    /\ UNCHANGED <<payload, deliveries, request, responses, tasks, log, verify, conv, recognizer, client>>

----------------------------------------------------------------------------
(* POST /webhook, lines 233-293: the payload *)

Messages ==
    { [from |-> U1, type |-> "audio", audio |-> [id |-> "media-1"]],
      [from |-> U2, type |-> "text", text |-> [body |-> <<"hi">>]],
      [from |-> U1, type |-> "image", image |-> [id |-> "media-2"]],
      [type |-> "text", text |-> [body |-> <<"hi">>]],
      [from |-> U1, text |-> [body |-> <<"hi">>]],
      [from |-> U1, type |-> "audio", audio |-> [mime_type |-> "audio/ogg"]],
      [from |-> U2, type |-> "text", text |-> [preview_url |-> FALSE]] }

STATUSES == <<"delivered">>

\* change.value with n messages: 'statuses' present or not; without messages,
\* also a value with neither key
Values(n) ==
    IF n = 0
    THEN {[statuses |-> STATUSES], [contacts |-> <<>>]}
    ELSE {[messages |-> ms] : ms \in [1..n -> Messages]}
            \cup {[statuses |-> STATUSES, messages |-> ms] : ms \in [1..n -> Messages]}

\* an entry with n messages: it carries one change; without messages, also an
\* entry with no 'changes' and a change with no 'value'
Entries(n) ==
    {[id |-> "0", changes |-> <<[field |-> "messages", value |-> v]>>] : v \in Values(n)}
        \cup (IF n = 0
              THEN {[id |-> "0"], [id |-> "0", changes |-> <<[field |-> "messages"]>>]}
              ELSE {})

\* the lists of at most m entries that carry at most n messages between them
RECURSIVE EntryLists(_, _)
EntryLists(m, n) ==
    {<<>>} \cup
        (IF m = 0 THEN {}
         ELSE UNION {{<<e>> \o rest : e \in Entries(k), rest \in EntryLists(m - 1, n - k)} :
                        k \in 0..n})

Bodies ==
    {[kind |-> "nojson"], [kind |-> "invalid"]}
        \cup {[kind |-> "json", data |-> v] :
                v \in {JsonNull, JsonList, JsonDict(EmptyDict)}
                        \cup {JsonDict([entry |-> es]) : es \in EntryLists(MaxEntries, MaxMsgs)}}

----------------------------------------------------------------------------
(* POST /webhook: the dispatch *)

RAISE == [op |-> "raise"]

\* the audio branch with the task submitted before the acknowledgment is sent
audio_branch_submit_first(key, phone_number, audio_id) ==
    << [op |-> "submit", key |-> key, fn |-> "process_voice_message_async",
        args |-> <<phone_number, audio_id>>],
       [op |-> "notify", key |-> key, to |-> phone_number, body |-> MSG_ACK] >>

\* lines 266-273: what the handler does with an audio message, in order
audio_branch(key, phone_number, audio_id) ==
    << [op |-> "notify", key |-> key, to |-> phone_number, body |-> MSG_ACK],
       [op |-> "submit", key |-> key, fn |-> "process_voice_message_async",
        args |-> <<phone_number, audio_id>>] >>

\* lines 276-281: what the handler does with a text message
text_branch(key, phone_number, text_content) ==
    << [op |-> "submit", key |-> key, fn |-> "send_to_botpress",
        args |-> <<phone_number, text_content>>] >>

\* lines 260-285: one iteration of the loop over value['messages']
message_steps(key, message) ==
    IF ~Has(message, "from") \/ ~Has(message, "type")
    THEN <<RAISE>>                                           \* KeyError, lines 260-261
    ELSE IF message.type = "audio"
    THEN IF Has(message, "audio") /\ Has(message.audio, "id")
         THEN audio_branch(key, message.from, message.audio.id)
         ELSE <<RAISE>>                                      \* KeyError, line 267
    ELSE IF message.type = "text"
    THEN IF Has(message, "text") /\ Has(message.text, "body")
         THEN text_branch(key, message.from, message.text.body)
         ELSE <<RAISE>>                                      \* KeyError, line 277
    ELSE <<>>                                                \* line 285

RECURSIVE Concat(_)
Concat(ss) == IF ss = <<>> THEN <<>> ELSE Head(ss) \o Concat(Tail(ss))

\* lines 250-285: one iteration of the loop over entry['changes']
change_steps(e, c, change) ==
    LET value == IF Has(change, "value") THEN change.value ELSE EmptyDict
    IN  IF Has(value, "statuses")
        THEN <<>>                                            \* line 255 continue
        ELSE IF Has(value, "messages")
        THEN Concat([k \in DOMAIN value.messages |->
                        message_steps(<<e, c, k>>, value.messages[k])])
        ELSE <<>>

\* lines 246-285: one iteration of the loop over data['entry']
entry_steps(e, entry) ==
    IF ~Has(entry, "changes")
    THEN <<>>                                                \* line 247 continue
    ELSE Concat([c \in DOMAIN entry.changes |-> change_steps(e, c, entry.changes[c])])

\* the steps with each exception caught inside the loop, around its message
until_raise_per_message(steps) ==
    SelectSeq(steps, LAMBDA step : step # RAISE)

\* the steps up to the first exception: it leaves the try block of line 238
until_raise(steps) ==
    IF \E i \in DOMAIN steps : steps[i] = RAISE
    THEN SubSeq(steps, 1, CHOOSE i \in DOMAIN steps :
                              steps[i] = RAISE /\ \A j \in 1..(i - 1) : steps[j] # RAISE)
    ELSE steps

\* the handler dropping a payload it has been delivered before
webhook_plan_deduplicated(data) ==
    IF deliveries.made > 0
    THEN <<>>
    ELSE IF data.t # "dict"
    THEN <<RAISE>>
    ELSE IF ~Has(data.d, "entry") \/ data.d.entry = <<>>
    THEN <<>>
    ELSE until_raise(Concat([e \in DOMAIN data.d.entry |-> entry_steps(e, data.d.entry[e])]))

\* lines 238-290: the calls the handler makes for the parsed body, in order
webhook_plan(data) ==
    IF data.t # "dict"
    THEN <<RAISE>>                                           \* line 240: no .get
    ELSE IF ~Has(data.d, "entry") \/ data.d.entry = <<>>
    THEN <<>>                                                \* line 242
    ELSE until_raise(Concat([e \in DOMAIN data.d.entry |-> entry_steps(e, data.d.entry[e])]))

\* line 235: request.get_json() returns the parsed body, or raises. A body not
\* sent as JSON is None under Flask before 2.1 and an error from 2.1 on.
get_json(body) ==
    IF body.kind = "json" THEN {[value |-> body.data]}
    ELSE IF body.kind = "invalid" THEN {[raises |-> 400]}
    ELSE {[raises |-> 415], [value |-> JsonNull]}

WEBHOOK_OK == [status |-> 200, body |-> "success"]

RequestIdle == [pc |-> "idle"]

----------------------------------------------------------------------------
(* POST /webhook: the handler *)

LogAppend(key, event) ==
    IF key \in DOMAIN log
    THEN [log EXCEPT ![key] = Append(@, event)]
    ELSE log @@ (key :> <<event>>)

\* lines 233-236: the platform delivers the payload; the body is parsed
PostWebhook ==
    /\ request.pc = "idle"
    /\ deliveries.made < deliveries.planned
    /\ deliveries' = [deliveries EXCEPT !.made = @ + 1]
    /\ \E r \in get_json(payload) :
         IF Has(r, "raises")
         THEN /\ responses' = Append(responses, [status |-> r.raises, body |-> "error"])
              /\ UNCHANGED request
         ELSE /\ request' = [pc |-> "dispatch", d |-> deliveries.made + 1,
                              todo |-> webhook_plan(r.value), ack |-> None]
              /\ UNCHANGED responses
    /\ UNCHANGED <<payload, tasks, log, verify, callback, conv, recognizer, client>>

\* line 270: the acknowledgment, sent on the handler's thread; ack is the value
\* the call returned for the last message acknowledged, which the handler drops
SendAck ==
    /\ request.pc = "dispatch"
    /\ request.todo # <<>>
    /\ Head(request.todo).op = "notify"
    /\ LET step == Head(request.todo)
       IN  log' = LogAppend(<<request.d>> \o step.key,
                            [op |-> "notify", to |-> step.to, body |-> step.body])
    /\ \E ok \in WhatsAppReturns :
         request' = [request EXCEPT
                        !.todo = Tail(@),
                        !.ack = Some([key |-> <<request.d>> \o Head(request.todo).key,
                                      ok |-> ok])]
    /\ UNCHANGED <<payload, deliveries, responses, tasks, verify, callback, conv, recognizer, client>>

max_workers == 5

\* the executor of line 28, taking a task only while a worker is free
executor_accepts_when_free(ts) ==
    Cardinality({u \in DOMAIN ts : ts[u].pc \notin {"queued", "done"}}) < max_workers

\* line 28: ThreadPoolExecutor puts the task on a queue without a bound, so
\* submit returns at once whatever the workers are doing
executor_accepts(ts) == TRUE

\* lines 270-273 with the submit made only when the acknowledgment was sent
submit_if_acked(ack) == ack = None \/ ack[1].ok

\* lines 270-273: the value of line 270 is not looked at, line 273 runs
\* whatever it was
submit_after_ack(ack) == TRUE

\* lines 273 and 281: executor.submit
Submit ==
    /\ request.pc = "dispatch"
    /\ request.todo # <<>>
    /\ Head(request.todo).op = "submit"
    /\ executor_accepts(tasks)
    /\ LET step == Head(request.todo)
           key == <<request.d>> \o step.key
       IN  IF (step.fn = "process_voice_message_async") => submit_after_ack(request.ack)
           THEN /\ tasks' = Append(tasks, [key |-> key, fn |-> step.fn, args |-> step.args,
                                           pc |-> "queued", local |-> <<>>])
                /\ log' = LogAppend(key, [op |-> "submit", fn |-> step.fn])
           ELSE UNCHANGED <<tasks, log>>
    /\ request' = [request EXCEPT !.todo = Tail(@), !.ack = None]
    /\ UNCHANGED <<payload, deliveries, responses, verify, callback, conv, recognizer, client>>

\* lines 287-290: an exception of the dispatch is caught and printed
CatchError ==
    /\ request.pc = "dispatch"
    /\ request.todo # <<>>
    /\ Head(request.todo).op = "raise"
    /\ request' = [request EXCEPT !.todo = <<>>]
    /\ UNCHANGED <<payload, deliveries, responses, tasks, log, verify, callback, conv, recognizer, client>>

\* lines 242 and 293
Respond ==
    /\ request.pc = "dispatch"
    /\ request.todo = <<>>
    /\ responses' = Append(responses, WEBHOOK_OK)
    /\ request' = RequestIdle
    /\ UNCHANGED <<payload, deliveries, tasks, log, verify, callback, conv, recognizer, client>>

----------------------------------------------------------------------------
(* The executor, line 28, and its tasks *)

Running(t) == tasks[t].pc \notin {"queued", "done"}

\* a free worker takes the oldest queued task
StartTask(t) ==
    /\ tasks[t].pc = "queued"
    /\ \A u \in 1..(t - 1) : tasks[u].pc # "queued"
    /\ Cardinality({u \in DOMAIN tasks : Running(u)}) < max_workers
    /\ tasks' = [tasks EXCEPT ![t].pc =
                    IF tasks[t].fn = "send_to_botpress" THEN "forward" ELSE "download"]
    /\ UNCHANGED <<payload, deliveries, request, responses, log, verify, callback, conv, recognizer, client>>

\* line 192
download_failed(audio_content) == ~TruthyOpt(audio_content)

\* the test of line 201 without the startswith("Sorry") part
is_transcript_any(transcribed_text) == Truthy(transcribed_text)

\* line 201
is_transcript(transcribed_text) ==
    Truthy(transcribed_text) /\ ~StartsWith(transcribed_text, SORRY)

\* the test of line 207 without its negation lost: the user is told in both cases
forward_failed_always(success) == TRUE

\* line 207
forward_failed(success) == ~success

\* line 210
fallback_message(transcribed_text) ==
    IF Truthy(transcribed_text) THEN transcribed_text ELSE MSG_EMPTY_TRANSCRIPT

\* lines 190-194 of process_voice_message_async
Download(t) ==
    /\ tasks[t].pc = "download"
    /\ \E audio_content \in DownloadResults :
         /\ tasks' = [tasks EXCEPT ![t] =
                        IF download_failed(audio_content)
                        THEN [@ EXCEPT !.pc = "notify", !.local = MSG_DOWNLOAD_FAILED]
                        ELSE [@ EXCEPT !.pc = "convert", !.local = audio_content[1]]]
         /\ log' = LogAppend(tasks[t].key,
                             [op |-> "download", id |-> tasks[t].args[2],
                              got |-> audio_content])
    /\ UNCHANGED <<payload, deliveries, request, responses, verify, callback, conv, recognizer, client>>

\* the outcomes of convert_voice_to_text a task can see: the string returned,
\* where it comes from (a transcript of either recogniser, or the branch of
\* the failure) and whether the recognizer was calibrated on the way
ConvertOutcomes ==
    {[ret |-> convert_voice_to_text(env).ret,
      source |-> IF convert_voice_to_text(env).source \in {"google", "sphinx"}
                 THEN "transcript"
                 ELSE convert_voice_to_text(env).source,
      calibrated |-> convert_voice_to_text(env).calibrated] :
        env \in ConvertEnvs}

\* lines 199-201 and 209-210
Convert(t) ==
    /\ tasks[t].pc = "convert"
    /\ \E out \in ConvertOutcomes :
         /\ tasks' = [tasks EXCEPT ![t] =
                        IF is_transcript(out.ret)
                        THEN [@ EXCEPT !.pc = "forward", !.local = out.ret]
                        ELSE [@ EXCEPT !.pc = "notify", !.local = fallback_message(out.ret)]]
         /\ log' = LogAppend(tasks[t].key,
                             [op |-> "convert", source |-> out.source, ret |-> out.ret])
         /\ recognizer' = IF out.calibrated
                          THEN adjust_for_ambient_noise(recognizer, tasks[t].key)
                          ELSE recognizer
    /\ UNCHANGED <<payload, deliveries, request, responses, verify, callback, conv, client>>

\* line 85: recognize_google is given no timeout, and the Recognizer of line 27
\* is built with none (operation_timeout stays None): a request that is never
\* answered keeps the call, and the worker, for ever
Stall(t) ==
    /\ tasks[t].pc = "convert"
    /\ tasks' = [tasks EXCEPT ![t].pc = "stalled"]
    /\ recognizer' = adjust_for_ambient_noise(recognizer, tasks[t].key)
    /\ UNCHANGED <<payload, deliveries, request, responses, log, verify, callback, conv, client>>

\* line 205 of process_voice_message_async, and the text task of line 281
Forward(t) ==
    /\ tasks[t].pc = "forward"
    /\ LET message_text == IF tasks[t].fn = "send_to_botpress" THEN tasks[t].args[2]
                                                                ELSE tasks[t].local
       IN  \E success \in BotpressReturns :
                 /\ tasks' = [tasks EXCEPT ![t] =
                                IF tasks[t].fn = "process_voice_message_async"
                                       /\ forward_failed(success)
                                THEN [@ EXCEPT !.pc = "notify",
                                               !.local = echo_message(message_text)]
                                ELSE [@ EXCEPT !.pc = "done", !.local = <<>>]]
                 /\ log' = LogAppend(tasks[t].key,
                                     [op |-> "forward", conversation |-> tasks[t].args[1],
                                      text |-> message_text, ok |-> success])
    /\ UNCHANGED <<payload, deliveries, request, responses, verify, callback, conv, recognizer, client>>

\* lines 193, 208 and 210: the notification of a run that failed; the value the
\* call returns is dropped. No callee raises (each catches Exception), so the
\* handler of lines 212-214 is entered by no failure of a stage.
Notify(t) ==
    /\ tasks[t].pc = "notify"
    /\ log' = LogAppend(tasks[t].key,
                        [op |-> "notify", to |-> tasks[t].args[1], body |-> tasks[t].local])
    /\ tasks' = [tasks EXCEPT ![t] = [@ EXCEPT !.pc = "done", !.local = <<>>]]
    /\ UNCHANGED <<payload, deliveries, request, responses, verify, callback, conv, recognizer, client>>

----------------------------------------------------------------------------
(* The specifications *)

\* the relay: a payload is delivered to POST /webhook and its tasks run
Init ==
    /\ payload \in Bodies
    /\ deliveries = [made |-> 0, planned |-> 1]
    /\ request = RequestIdle
    /\ responses = <<>>
    /\ tasks = <<>>
    /\ log = <<>>
    /\ verify = VerifyIdle
    /\ callback = CallbackIdle
    /\ conv = ConvertIdle
    /\ recognizer = RecognizerInit
    /\ client = ClientIdle

Next ==
    \/ PostWebhook
    \/ SendAck
    \/ Submit
    \/ CatchError
    \/ Respond
    \/ \E t \in DOMAIN tasks : StartTask(t)
    \/ \E t \in DOMAIN tasks : Download(t)
    \/ \E t \in DOMAIN tasks : Convert(t)
    \/ \E t \in DOMAIN tasks : Stall(t)
    \/ \E t \in DOMAIN tasks : Forward(t)
    \/ \E t \in DOMAIN tasks : Notify(t)

Spec == Init /\ [][Next]_vars

\* GET /webhook, over its inputs and the configured secret
InitVerify ==
    /\ payload = [kind |-> "nojson"]
    /\ deliveries = [made |-> 0, planned |-> 0]
    /\ request = RequestIdle
    /\ responses = <<>>
    /\ tasks = <<>>
    /\ log = <<>>
    /\ verify \in {[pc |-> "call", args |-> a] : a \in VerifyInputs}
    /\ callback = CallbackIdle
    /\ conv = ConvertIdle
    /\ recognizer = RecognizerInit
    /\ client = ClientIdle

SpecVerify == InitVerify /\ [][WebhookGet]_vars

\* POST /botpress-webhook, over its bodies
InitCallback ==
    /\ payload = [kind |-> "nojson"]
    /\ deliveries = [made |-> 0, planned |-> 0]
    /\ request = RequestIdle
    /\ responses = <<>>
    /\ tasks = <<>>
    /\ log = <<>>
    /\ verify = VerifyIdle
    /\ callback \in {[pc |-> "call", body |-> b] : b \in CallbackBodies}
    /\ conv = ConvertIdle
    /\ recognizer = RecognizerInit
    /\ client = ClientIdle

SpecCallback == InitCallback /\ [][BotpressWebhook]_vars

\* convert_voice_to_text, over the outcomes of the operations it performs
InitConvert ==
    /\ payload = [kind |-> "nojson"]
    /\ deliveries = [made |-> 0, planned |-> 0]
    /\ request = RequestIdle
    /\ responses = <<>>
    /\ tasks = <<>>
    /\ log = <<>>
    /\ verify = VerifyIdle
    /\ callback = CallbackIdle
    /\ conv \in {[pc |-> "call", env |-> e] : e \in ConvertEnvs}
    /\ recognizer = RecognizerInit
    /\ client = ClientIdle

SpecConvert == InitConvert /\ [][ConvertReturn]_vars

\* the two clients, over the outcomes of their exchanges
InitClients ==
    /\ payload = [kind |-> "nojson"]
    /\ deliveries = [made |-> 0, planned |-> 0]
    /\ request = RequestIdle
    /\ responses = <<>>
    /\ tasks = <<>>
    /\ log = <<>>
    /\ verify = VerifyIdle
    /\ callback = CallbackIdle
    /\ conv = ConvertIdle
    /\ recognizer = RecognizerInit
    /\ client \in {[pc |-> "call", call |-> c] : c \in ClientCalls}

SpecClients == InitClients /\ [][ClientReturn]_vars

\* a message that makes the handler submit a voice-pipeline task
IsVoice(m) ==
    /\ Has(m, "from") /\ Has(m, "type") /\ m.type = "audio"
    /\ Has(m, "audio") /\ Has(m.audio, "id")

\* a message that makes the handler submit a Bot Forwarder call
IsText(m) ==
    /\ Has(m, "from") /\ Has(m, "type") /\ m.type = "text"
    /\ Has(m, "text") /\ Has(m.text, "body")

\* the payloads of the redelivery: one entry, at most one voice message
TwiceBodies ==
    {[kind |-> "json", data |-> JsonDict([entry |-> <<e>>])] :
        e \in {x \in UNION {Entries(n) : n \in 1..MaxMsgs} :
                  LET ms == x.changes[1].value.messages
                  IN  Cardinality({k \in DOMAIN ms : IsVoice(ms[k])}) <= 1}}

\* the platform delivers the same payload to POST /webhook twice
InitTwice ==
    /\ payload \in TwiceBodies
    /\ deliveries = [made |-> 0, planned |-> 2]
    /\ request = RequestIdle
    /\ responses = <<>>
    /\ tasks = <<>>
    /\ log = <<>>
    /\ verify = VerifyIdle
    /\ callback = CallbackIdle
    /\ conv = ConvertIdle
    /\ recognizer = RecognizerInit
    /\ client = ClientIdle

SpecTwice == InitTwice /\ [][Next]_vars

\* the payloads that fill the pool: one message more than there are workers,
\* text messages, the last of them a text message, a voice message or a
\* message without its body
LoadBodies ==
    LET text == [from |-> U2, type |-> "text", text |-> [body |-> <<"hi">>]]
        voice == [from |-> U1, type |-> "audio", audio |-> [id |-> "media-1"]]
        broken == [from |-> U2, type |-> "text", text |-> [preview_url |-> FALSE]]
    IN  {[kind |-> "json",
          data |-> JsonDict([entry |-> <<[id |-> "0", changes |->
                      <<[field |-> "messages", value |-> [messages |->
                          [k \in 1..(max_workers + 1) |->
                              IF k <= max_workers THEN text ELSE last]]]>>]>>])] :
            last \in {text, voice, broken}}

\* a payload with more messages than the pool has workers
InitLoad ==
    /\ payload \in LoadBodies
    /\ deliveries = [made |-> 0, planned |-> 1]
    /\ request = RequestIdle
    /\ responses = <<>>
    /\ tasks = <<>>
    /\ log = <<>>
    /\ verify = VerifyIdle
    /\ callback = CallbackIdle
    /\ conv = ConvertIdle
    /\ recognizer = RecognizerInit
    /\ client = ClientIdle

SpecLoad == InitLoad /\ [][Next]_vars

\* the relay with its threads scheduled fairly: as long as the handler or a
\* task can take a step, one of them does
FairSpec == Spec /\ WF_vars(Next)

----------------------------------------------------------------------------
(* What the log says about a message *)

VoiceTasks == {t \in DOMAIN tasks : tasks[t].fn = "process_voice_message_async"}

Events(key, op) == SelectSeq(log[key], LAMBDA ev : ev.op = op)

IsAck(ev) == ev.op = "notify" /\ ev.body = MSG_ACK

\* the notifications of a message other than its acknowledgment
RunNotes(key) == SelectSeq(log[key], LAMBDA ev : ev.op = "notify" /\ ev.body # MSG_ACK)

Finished(t) == tasks[t].pc = "done"

\* nothing is left to do: the payload was delivered, answered, and every task ended
Quiescent ==
    /\ deliveries.made = deliveries.planned
    /\ request.pc = "idle"
    /\ \A t \in DOMAIN tasks : Finished(t)

----------------------------------------------------------------------------
(* The claims *)

\* C1: every POST /webhook request is answered with {"status":"success"} and
\* HTTP 200, whatever its body (here: whatever body is sent as JSON, so that the
\* answer does not depend on the version of Flask).
C1_AlwaysSuccess ==
    payload.kind # "nojson" =>
        \A i \in DOMAIN responses : responses[i] = WEBHOOK_OK

\* C2: for every audio message, the acknowledgment is sent before the task of
\* the message is submitted, hence before every step of its pipeline: each
\* submit, download, convert, forward and terminal notification in the log of
\* the message has the acknowledgment to the sender before it.
C2_AckBeforePipeline ==
    \A t \in VoiceTasks :
        LET evs == log[tasks[t].key]
        IN  \A j \in DOMAIN evs :
                ~IsAck(evs[j]) =>
                    \E i \in 1..(j - 1) : IsAck(evs[i]) /\ evs[i].to = tasks[t].args[1]

\* a pipeline ran to its forward after the acknowledgment
C2_Witness ==
    \E t \in VoiceTasks :
        LET evs == log[tasks[t].key]
        IN  /\ IsAck(evs[1])
            /\ Events(tasks[t].key, "download") # <<>>
            /\ Events(tasks[t].key, "forward") # <<>>

\* C3: a voice-pipeline run sends, besides the acknowledgment, at most one
\* notification, to the sender: exactly one, with the message of the failure,
\* when the run ends in download failed, no speech, service unavailable,
\* transcoding failed or forward failed, and none when the forward succeeds.
C3_OneTerminalNotification ==
    \A t \in VoiceTasks :
        LET key == tasks[t].key
            notes == RunNotes(key)
            bodies == [i \in DOMAIN notes |-> notes[i].body]
            dl == Events(key, "download")
            cv == Events(key, "convert")
            fw == Events(key, "forward")
        IN  /\ Len(notes) <= 1
            /\ \A i \in DOMAIN notes : notes[i].to = tasks[t].args[1]
            /\ Finished(t) =>
                /\ (dl # <<>> /\ dl[1].got \in {None, Some(<<>>)})
                       => bodies = <<MSG_DOWNLOAD_FAILED>>
                /\ (cv # <<>> /\ cv[1].source = "no_speech")
                       => bodies = <<MSG_NOT_UNDERSTOOD>>
                /\ (cv # <<>> /\ cv[1].source = "unavailable")
                       => bodies = <<MSG_RECOGNITION_DOWN>>
                /\ (cv # <<>> /\ cv[1].source = "error")
                       => bodies = <<MSG_NOT_PROCESSED>>
                /\ (fw # <<>> /\ ~fw[1].ok) => Len(notes) = 1
                /\ (fw # <<>> /\ fw[1].ok) => notes = <<>>

\* a run whose download failed has ended with its one notification
C3_Witness ==
    \E t \in VoiceTasks :
        /\ Finished(t)
        /\ Events(tasks[t].key, "download")[1].got = None
        /\ Len(RunNotes(tasks[t].key)) = 1

\* the positions of the text messages in entry[].changes[].value.messages[]
TextMessageKeys ==
    IF payload.kind = "json" /\ payload.data.t = "dict" /\ Has(payload.data.d, "entry")
    THEN LET entry == payload.data.d.entry
         IN  {<<e, c, k>> \in (DOMAIN entry) \X {1} \X (1..MaxMsgs) :
                /\ Has(entry[e], "changes")
                /\ Has(entry[e].changes[c], "value")
                /\ Has(entry[e].changes[c].value, "messages")
                /\ k \in DOMAIN entry[e].changes[c].value.messages
                /\ LET m == entry[e].changes[c].value.messages[k]
                   IN  /\ Has(m, "from") /\ Has(m, "type") /\ m.type = "text"
                       /\ Has(m, "text") /\ Has(m.text, "body")}
    ELSE {}

MessageAt(key) == payload.data.d.entry[key[1]].changes[key[2]].value.messages[key[3]]

\* C4: for every text message of the payload, exactly one send_to_botpress
\* call is made, with the text body of the message and its sender as
\* conversation id, and no Notifier call is made for it.
C4_EveryTextForwardedOnce ==
    Quiescent =>
        \A key \in TextMessageKeys :
            /\ <<1>> \o key \in DOMAIN log
            /\ LET fw == Events(<<1>> \o key, "forward")
               IN  /\ Len(fw) = 1
                   /\ fw[1].text = MessageAt(key).text.body
                   /\ fw[1].conversation = MessageAt(key).from
            /\ Events(<<1>> \o key, "notify") = <<>>

\* C5: in a voice-pipeline run no stage is retried and the Bot Forwarder is
\* called at most once, only after a download that returned content and a
\* recognition that returned a transcript; a run whose download failed, or
\* whose recognition ended in no speech or service unavailable, makes no
\* Bot Forwarder call.
C5_ForwardOnlyAfterTranscript ==
    \A t \in VoiceTasks :
        LET key == tasks[t].key
            evs == log[key]
            dl == Events(key, "download")
            cv == Events(key, "convert")
            fw == Events(key, "forward")
        IN  /\ Len(dl) <= 1 /\ Len(cv) <= 1 /\ Len(fw) <= 1
            /\ \A j \in DOMAIN evs :
                 evs[j].op = "forward" =>
                    /\ \E i \in 1..(j - 1) :
                         evs[i].op = "download" /\ evs[i].got \notin {None, Some(<<>>)}
                    /\ \E i \in 1..(j - 1) :
                         evs[i].op = "convert" /\ evs[i].source = "transcript"
            /\ (dl # <<>> /\ dl[1].got \in {None, Some(<<>>)}) => cv = <<>> /\ fw = <<>>
            /\ (cv # <<>> /\ cv[1].source \in {"no_speech", "unavailable"}) => fw = <<>>

\* a run whose recognition service was unavailable has ended without a forward
C5_Witness ==
    \E t \in VoiceTasks :
        /\ Finished(t)
        /\ Events(tasks[t].key, "convert") # <<>>
        /\ Events(tasks[t].key, "convert")[1].source = "unavailable"
        /\ Events(tasks[t].key, "forward") = <<>>

\* C6: whenever recognition succeeds with a text (here: a text that is not
\* empty), the run makes one Bot Forwarder call with exactly that text and the
\* sender as conversation id.
C6_TranscriptForwarded ==
    \A t \in VoiceTasks :
        LET key == tasks[t].key
            cv == Events(key, "convert")
            fw == Events(key, "forward")
        IN  (Finished(t) /\ cv # <<>> /\ cv[1].source = "transcript"
                /\ cv[1].ret # <<>>)
                => /\ Len(fw) = 1
                   /\ fw[1].text = cv[1].ret
                   /\ fw[1].conversation = tasks[t].args[1]

\* C7: in the Forwarding state, a Bot Forwarder failure is followed by exactly
\* one notification to the sender whose body contains the transcript; a Bot
\* Forwarder success ends the run at once, with no notification.
C7_ForwardOutcome ==
    \A t \in VoiceTasks :
        LET key == tasks[t].key
            notes == RunNotes(key)
            fw == Events(key, "forward")
        IN  fw # <<>> =>
              IF fw[1].ok
              THEN Finished(t) /\ notes = <<>>
              ELSE /\ ~Finished(t) => tasks[t].pc = "notify" /\ notes = <<>>
                   /\ Finished(t) =>
                        /\ Len(notes) = 1
                        /\ notes[1].to = tasks[t].args[1]
                        /\ Contains(notes[1].body, fw[1].text)

\* a run whose forward failed has ended, its transcript echoed to the sender
C7_Witness ==
    \E t \in VoiceTasks :
        /\ Finished(t)
        /\ Events(tasks[t].key, "forward") # <<>>
        /\ ~Events(tasks[t].key, "forward")[1].ok
        /\ Contains(RunNotes(tasks[t].key)[1].body, <<"hello", " there">>)

\* C8: a verification request (hub.mode=subscribe, with a challenge) is
\* answered with the challenge when the supplied token equals the configured
\* secret, and with 403 for every other token, an absent token and an
\* unconfigured secret included.
C8_TokenDecides ==
    (verify.pc = "returned" /\ verify.args.mode = Some("subscribe")
        /\ verify.args.challenge # None)
        => IF verify.args.secret # None /\ verify.args.token = verify.args.secret
           THEN verify.response = [status |-> 200, body |-> verify.args.challenge[1]]
           ELSE verify.response.status = 403

\* C9: POST /botpress-webhook makes exactly one Notifier call, to
\* conversationId with body payload.text, when type is text and conversationId
\* and text are present (not empty), and no call otherwise; it answers 200
\* whenever the body has the shape of the contract, also when the Notifier call
\* fails, and 500 only when the body cannot be parsed: it is not JSON, not an
\* object, or its payload is not an object.
C9_CallbackRelay ==
    callback.pc = "returned" =>
        LET b == callback.body
            out == callback.out
            is_object == b.kind = "json" /\ b.data.t = "dict"
            d == b.data.d
            shaped == is_object /\ (Has(d, "payload") => d.payload.t = "dict")
            relayed == /\ shaped
                       /\ Has(d, "type") /\ d.type = "text"
                       /\ Has(d, "conversationId") /\ d.conversationId # <<>>
                       /\ Has(d, "payload") /\ Has(d.payload.d, "text")
                       /\ d.payload.d.text # <<>>
        IN  /\ relayed =>
                /\ Len(out.calls) = 1
                /\ out.calls[1].op = "notify"
                /\ out.calls[1].to = d.conversationId
                /\ out.calls[1].body = d.payload.d.text
            /\ ~relayed => out.calls = <<>>
            /\ shaped => out.response = CALLBACK_OK
            /\ ~is_object => out.response = CALLBACK_ERROR
            /\ out.response \in {CALLBACK_OK, CALLBACK_ERROR}

\* the scenario of the contract, with the Notifier call failing
C9_Witness ==
    /\ callback.pc = "returned"
    /\ callback.body = [kind |-> "json",
                        data |-> JsonDict([conversationId |-> U1, type |-> "text",
                                           payload |-> JsonDict([text |-> <<"Hi!">>])])]
    /\ callback.out.calls = <<[op |-> "notify", to |-> U1, body |-> <<"Hi!">>, ok |-> FALSE]>>
    /\ callback.out.response = CALLBACK_OK

\* C10: after every call of convert_voice_to_text in which os.unlink does not
\* fail, no temporary file created by the call still exists.
C10_NoTempFileLeft ==
    (conv.pc = "returned" /\ \A f \in {"ogg", "wav"} : conv.env.unlink_ok[f])
        => conv.out.files = {}

\* the places <<entry, change, message>> of the messages of the payload
MessageKeys ==
    IF payload.kind = "json" /\ payload.data.t = "dict" /\ Has(payload.data.d, "entry")
    THEN LET entry == payload.data.d.entry
         IN  UNION {IF /\ Has(entry[e], "changes")
                          /\ Has(entry[e].changes[1], "value")
                          /\ Has(entry[e].changes[1].value, "messages")
                       THEN {<<e, 1, k>> : k \in DOMAIN entry[e].changes[1].value.messages}
                       ELSE {} : e \in DOMAIN entry}
    ELSE {}

\* what the handler itself did for a message: its acknowledgment and its submit
HandlerEvents(key) == SelectSeq(log[key], LAMBDA ev : ev.op = "submit" \/ IsAck(ev))

TasksOf(key) == {t \in DOMAIN tasks : tasks[t].key = key}

\* C11: a payload delivered twice is handled twice: once both deliveries are
\* answered, a message the first delivery dispatched is dispatched by the
\* second in the same way (the same acknowledgment and the same submit), each
\* voice message has two acknowledgments and two pipeline tasks, each text
\* message two tasks, which make two Bot Forwarder calls with the same text,
\* and the tasks of the two deliveries are different tasks with the same
\* arguments.
C11_RedeliveryRunsTwice ==
    (deliveries.made = 2 /\ request.pc = "idle") =>
        \A key \in MessageKeys :
            LET k1 == <<1>> \o key
                k2 == <<2>> \o key
            IN  /\ k1 \in DOMAIN log <=> k2 \in DOMAIN log
                /\ k1 \in DOMAIN log =>
                      /\ HandlerEvents(k1) = HandlerEvents(k2)
                      /\ Cardinality(TasksOf(k1)) = 1 /\ Cardinality(TasksOf(k2)) = 1
                      /\ \A t \in TasksOf(k1), u \in TasksOf(k2) :
                            /\ t # u
                            /\ tasks[t].fn = tasks[u].fn /\ tasks[t].args = tasks[u].args
                      /\ IsVoice(MessageAt(key)) =>
                            Len(SelectSeq(log[k1] \o log[k2], IsAck)) = 2
                      /\ (IsText(MessageAt(key)) /\ Quiescent) =>
                            /\ Len(Events(k1, "forward")) = 1
                            /\ Events(k1, "forward")[1].text = MessageAt(key).text.body
                            /\ Len(Events(k2, "forward")) = 1
                            /\ Events(k2, "forward")[1].text = MessageAt(key).text.body

\* both runs of a voice message ended, the first with a failed download and
\* the second with its transcript forwarded
C11_Witness ==
    /\ Quiescent
    /\ deliveries.made = 2
    /\ \E key \in MessageKeys :
          /\ IsVoice(MessageAt(key))
          /\ <<1>> \o key \in DOMAIN log /\ <<2>> \o key \in DOMAIN log
          /\ Events(<<1>> \o key, "forward") = <<>>
          /\ \E i \in DOMAIN log[<<2>> \o key] :
                log[<<2>> \o key][i].op = "forward" /\ log[<<2>> \o key][i].ok

\* C12: neither client lets an exception out. send_to_botpress returns True
\* exactly when its message POST was made and answered with 200 or 201, and
\* False for every other status, for a timeout and for every other exception
\* of either of its exchanges; send_whatsapp_message returns True exactly when
\* its POST is answered with 200, and False for every other status and for
\* every exception.
C12_ClientsReturnBooleans ==
    client.pc = "returned" =>
        /\ Has(client.result, "returns")
        /\ client.result.returns \in BOOLEAN
        /\ client.call.fn = "send_to_botpress" =>
              (client.result.returns <=>
                  /\ Has(client.call.conv, "status")
                  /\ Has(client.call.post, "status")
                  /\ client.call.post.status \in {200, 201})
        /\ client.call.fn = "send_whatsapp_message" =>
              (client.result.returns <=>
                  (Has(client.call.post, "status") /\ client.call.post.status = 200))

\* send_to_botpress returned False for a message POST answered with an error
C12_Witness ==
    /\ client.pc = "returned"
    /\ client.call.fn = "send_to_botpress"
    /\ Has(client.call.conv, "status")
    /\ Has(client.call.post, "status") /\ client.call.post.status = 500
    /\ client.result = Returns(FALSE)

\* the call got as far as the recognition of line 85
RecognitionReached(env) ==
    /\ env.create_ok /\ env.write_ok /\ env.decode_ok /\ env.export = "ok"
    /\ env.open_ok /\ env.record_ok

\* C13: the offline recogniser is tried only after the primary one reported a
\* service failure (RequestError), and then it is tried, once, after the
\* primary one: never after a transcript or a no-speech result of the primary
\* one, which is then the only attempt. When both fail the outcome is the
\* service-unavailable message, and a no-speech result of the primary one
\* gives the no-speech message.
C13_FallbackOnlyOnServiceFailure ==
    conv.pc = "returned" =>
        LET env == conv.env
            out == conv.out
            service_failure == env.google = [raises |-> "RequestError"]
        IN  /\ (\E i \in DOMAIN out.attempts : out.attempts[i] = "sphinx") =>
                  (RecognitionReached(env) /\ service_failure)
            /\ RecognitionReached(env) =>
                  /\ service_failure => out.attempts = <<"google", "sphinx">>
                  /\ ~service_failure => out.attempts = <<"google">>
                  /\ Has(env.google, "text") => out.ret = env.google.text
                  /\ env.google = [raises |-> "UnknownValueError"] =>
                        out.ret = MSG_NOT_UNDERSTOOD
                  /\ (service_failure /\ Has(env.sphinx, "raises")) =>
                        out.ret = MSG_RECOGNITION_DOWN
                  /\ (service_failure /\ Has(env.sphinx, "text")) =>
                        out.ret = env.sphinx.text

\* both recognisers were tried and both failed
C13_Witness ==
    /\ conv.pc = "returned"
    /\ RecognitionReached(conv.env)
    /\ conv.env.google = [raises |-> "RequestError"]
    /\ Has(conv.env.sphinx, "raises")
    /\ conv.out.attempts = <<"google", "sphinx">>
    /\ conv.out.ret = MSG_RECOGNITION_DOWN

\* a message whose dispatch raises KeyError: a key the handler reads is missing
Raising(m) ==
    \/ ~Has(m, "from") \/ ~Has(m, "type")
    \/ m.type = "audio" /\ ~IsVoice(m)
    \/ m.type = "text" /\ ~IsText(m)

\* the delivery was answered
Answered == deliveries.made = 1 /\ request.pc = "idle"

\* C14: every text or audio message found in a value.messages of the payload
\* is dispatched (its task is submitted, once), whatever other keys that value
\* carries (here: in the payloads none of whose messages makes the dispatch
\* raise, so that no message is lost to the exception of another).
C14_EveryMessageDispatched ==
    (Answered /\ \A key \in MessageKeys : ~Raising(MessageAt(key))) =>
        \A key \in MessageKeys :
            (IsVoice(MessageAt(key)) \/ IsText(MessageAt(key))) =>
                /\ <<1>> \o key \in DOMAIN log
                /\ Len(Events(<<1>> \o key, "submit")) = 1

\* C15: whenever send_to_botpress returned False for a message, of a text task
\* or of a voice-pipeline task, the task ends with one Platform Notifier call
\* to the sender of the message.
C15_ForwardFailureNotified ==
    \A t \in DOMAIN tasks :
        (Finished(t) /\ \E i \in DOMAIN log[tasks[t].key] :
                            /\ log[tasks[t].key][i].op = "forward"
                            /\ ~log[tasks[t].key][i].ok) =>
            /\ Len(RunNotes(tasks[t].key)) = 1
            /\ RunNotes(tasks[t].key)[1].to = tasks[t].args[1]

HandlerStep == SendAck \/ Submit \/ CatchError \/ Respond

\* C16: the handler never waits for a task: while it handles a request its
\* next step (the acknowledgment send, a submit, the catch of an exception or
\* the response) can be taken at once, whatever the tasks submitted so far are
\* doing and however many of them the pool holds; in particular the response
\* is returned while tasks are queued or running.
C16_HandlerNeverWaits ==
    request.pc = "dispatch" => ENABLED HandlerStep

\* the response was returned while every worker was busy and a task queued
C16_Witness ==
    /\ responses = <<WEBHOOK_OK>>
    /\ Cardinality({t \in DOMAIN tasks : Running(t)}) = max_workers
    /\ \E t \in DOMAIN tasks : tasks[t].pc = "queued"

\* C17: with the threads scheduled fairly and no crash, every voice-pipeline
\* task submitted reaches a terminal state and stays there, however many tasks
\* are queued ahead of it.
C17_EveryTaskEnds ==
    <>[](\A t \in VoiceTasks : Finished(t))

\* C18: what a voice-pipeline task writes is local to its run: the threshold
\* of the recognizer a task calibrates holds the audio of no other task.
C18_TaskStateIsLocal ==
    Cardinality(recognizer.energy_threshold) <= 1

\* the value that carries the message at a place
ValueAt(key) == payload.data.d.entry[key[1]].changes[key[2]].value

\* the messages the loops of the handler come to: those of a value without
\* 'statuses'
ReachedKeys == {key \in MessageKeys : ~Has(ValueAt(key), "statuses")}

\* the order of the payload
Precedes(a, b) ==
    \/ a[1] < b[1]
    \/ a[1] = b[1] /\ a[2] < b[2]
    \/ a[1] = b[1] /\ a[2] = b[2] /\ a[3] < b[3]

\* C19: the messages are dispatched in the order of the payload inside one
\* error boundary: once a request with a JSON body is answered, the answer is
\* the success response; a message at or after the first message whose
\* dispatch raises has no acknowledgment and no task; every voice or text
\* message before it has its acknowledgment and its task; and the tasks were
\* submitted in the order of the payload.
C19_OneErrorBoundary ==
    (Answered /\ payload.kind = "json") =>
        /\ responses = <<WEBHOOK_OK>>
        /\ \A key \in ReachedKeys :
              LET m == MessageAt(key)
                  k1 == <<1>> \o key
              IN  IF \E r \in ReachedKeys :
                        Raising(MessageAt(r)) /\ (r = key \/ Precedes(r, key))
                  THEN k1 \notin DOMAIN log /\ TasksOf(k1) = {}
                  ELSE /\ IsVoice(m) =>
                            /\ k1 \in DOMAIN log
                            /\ HandlerEvents(k1) =
                                  << [op |-> "notify", to |-> m.from, body |-> MSG_ACK],
                                     [op |-> "submit", fn |-> "process_voice_message_async"] >>
                            /\ Cardinality(TasksOf(k1)) = 1
                       /\ IsText(m) =>
                            /\ k1 \in DOMAIN log
                            /\ HandlerEvents(k1) =
                                  << [op |-> "submit", fn |-> "send_to_botpress"] >>
                            /\ Cardinality(TasksOf(k1)) = 1
        /\ \A t, u \in DOMAIN tasks :
              t < u => Precedes(SubSeq(tasks[t].key, 2, 4), SubSeq(tasks[u].key, 2, 4))

\* a voice message was acknowledged and submitted, the message after it made
\* the dispatch raise, and the request was answered with success
C19_Witness ==
    /\ Answered
    /\ responses = <<WEBHOOK_OK>>
    /\ \E key \in ReachedKeys, r \in ReachedKeys :
          /\ Precedes(key, r)
          /\ IsVoice(MessageAt(key)) /\ Raising(MessageAt(r))
          /\ TasksOf(<<1>> \o key) # {}
          /\ <<1>> \o r \notin DOMAIN log

\* C20: the task of an audio message is submitted whatever its acknowledgment
\* returned: after the acknowledgment, sent or not, the next step of the
\* handler is the submit of the task of that message, which is not submitted
\* yet and can be submitted at once; past that step every acknowledged message
\* has exactly one task, the voice pipeline with the sender and the media id
\* of the message; and no message ever has two tasks.
C20_SubmittedWhateverTheAck ==
    /\ \A key \in DOMAIN log : Cardinality(TasksOf(key)) <= 1
    /\ (request.pc = "dispatch" /\ request.ack # None) =>
          /\ request.todo # <<>>
          /\ Head(request.todo).op = "submit"
          /\ Head(request.todo).fn = "process_voice_message_async"
          /\ <<request.d>> \o Head(request.todo).key = request.ack[1].key
          /\ TasksOf(request.ack[1].key) = {}
          /\ ENABLED Submit
    /\ \A key \in DOMAIN log :
          ((\E i \in DOMAIN log[key] : IsAck(log[key][i]))
              /\ ~(request.pc = "dispatch" /\ request.ack # None
                      /\ request.ack[1].key = key)) =>
              /\ Cardinality(TasksOf(key)) = 1
              /\ \A t \in TasksOf(key) :
                    /\ tasks[t].fn = "process_voice_message_async"
                    /\ tasks[t].args = <<MessageAt(SubSeq(key, 2, 4)).from,
                                         MessageAt(SubSeq(key, 2, 4)).audio.id>>

\* the acknowledgment of a voice message was not sent, and its task is the
\* next thing the handler submits
C20_Witness ==
    /\ request.pc = "dispatch"
    /\ request.ack # None
    /\ ~request.ack[1].ok
    /\ ENABLED Submit

====
